---- MODULE Spec2Model ----
(***************************************************************************)
(* Model of the sam-nhs-queries jobs:                                      *)
(*   - FetchAdditionalField/index.py : the backfill job                    *)
(*   - ListAllMedicines/index.py     : the full-sync job                   *)
(* and of the GET-with-retry primitive both jobs share.                    *)
(***************************************************************************)
EXTENDS Integers, Sequences, FiniteSets, TLC

VARIABLES
    job,                 \* which entry point runs: "backfill", "sync" or "fetch"
    pc,                  \* position of the running handler
    event,               \* the invocation event (backfill): [continuationCursor]
    store,               \* the table the backfill job scans, in scan order
    upstream,            \* detail endpoint: URL -> kind of answer
    accumulated_items,   \* FetchAdditionalField lambda_handler local
    last_evaluated_key,  \* FetchAdditionalField lambda_handler local
    item_idx,            \* index of the batch entry the for loop is at
    processed_items,     \* FetchAdditionalField lambda_handler local (set of URLs)
    result,              \* what the handler returned (NoResult while running)
    exception,           \* the exception that left the handler ("": none)
    token_posts,         \* number of POSTs to the token endpoint
    token_status,        \* status the token endpoint answered (0: not asked)
    scan_count,          \* 0, 1 or 2 (two or more): scans issued by this invocation
    first_scan_start,    \* ExclusiveStartKey of the first scan of this invocation
    fetch_log,           \* per batch entry processed: what happened to it
    catalog,             \* listing endpoint: the pages of the catalog
    page,                \* ListAllMedicines lambda_handler local
    medicines_data,      \* ListAllMedicines lambda_handler local
    page_log,            \* per list_medicines call: page asked and outcome
    table,               \* the table the full-sync job writes: puts, in order
    put_idx,             \* index into medicines_data of write_to_dynamodb
    table0,              \* the table as the running full-sync invocation found it
    runs,                \* full-sync invocations started so far
    last_answers,        \* answers given to the last call of the fetch primitive
    store0,              \* the store before the first backfill invocation
    other,               \* the locals of a second, suspended backfill invocation
    last_call,           \* outcome and trace of the last call of the primitive
    jwt                  \* the last assertion built, with the inputs it was built from

vars == <<job, pc, event, store, upstream, accumulated_items, last_evaluated_key,
          item_idx, processed_items, result, exception, token_posts,
          token_status,
          scan_count, first_scan_start, fetch_log, store0, other,
          catalog, page, medicines_data, page_log, table, put_idx, table0, runs,
          last_answers, last_call, jwt>>

backfill_vars == <<event, store, upstream, accumulated_items, last_evaluated_key,
                   item_idx, processed_items, scan_count, first_scan_start,
                   fetch_log, store0, other>>

sync_vars == <<catalog, page, medicines_data, page_log, table, put_idx,
               table0, runs>>

fetch_vars == <<last_answers, last_call, jwt>>

(***************************************************************************)
(* Bounds of the model.                                                    *)
(***************************************************************************)
MaxAnswers == 5        \* longest scripted sequence of upstream answers
MaxStore == 26         \* largest store the backfill job is run against
MaxFaultIdx == 3       \* faults are injected on the first entries of a batch
MaxPages == 3          \* pages of the largest catalog
MaxLinks == 2          \* significant links of the largest page
MaxClock == 5          \* latest reading of the clock, in half seconds

Min(a, b) == IF a < b THEN a ELSE b

RECURSIVE Pow(_, _)
Pow(b, e) == IF e = 0 THEN 1 ELSE b * Pow(b, e - 1)

NoResult == [statusCode |-> 0]

(***************************************************************************)
(* The GET-with-retry primitive: fetch_medicine_detail and list_medicines. *)
(* An upstream script is a sequence of HTTP statuses; attempt k reads the  *)
(* k-th answer, and the last answer repeats once the script is used up.    *)
(***************************************************************************)
StatusCodes == {200, 429, 404}

retries == 5                \* default argument retries=5
backoff_num == 3            \* backoff_factor=1.5 as the fraction 3/2
backoff_den == 2

AnswerAt(answers, attempt) == answers[Min(attempt + 1, Len(answers))]

\* every attempt of a call is answered 429
AllLimited(answers) == \A k \in 0..(retries - 1) : AnswerAt(answers, k) = 429

\* wait_time = backoff_factor ** attempt, kept as an exact fraction
WaitTime_Constant(attempt) == [num |-> 1, den |-> 1]
WaitTime(attempt) ==
    [num |-> Pow(backoff_num, attempt), den |-> Pow(backoff_den, attempt)]

GetEvent(attempt) == [ev |-> "GET", attempt |-> attempt, num |-> 0, den |-> 1]
SleepEvent(attempt) ==
    [ev |-> "sleep", attempt |-> attempt,
     num |-> WaitTime(attempt).num, den |-> WaitTime(attempt).den]

\* for attempt in range(retries): one more iteration is allowed
RangeHasNext(attempt) == attempt < retries

\* The body of the for loop, shared by both functions; on_exhaust is what
\* the code after the loop does ("none": return None, "raise": raise).
RECURSIVE RetryLoop(_, _, _, _)
RetryLoop(answers, attempt, trace, on_exhaust) ==
    IF ~RangeHasNext(attempt)
    THEN [outcome |-> on_exhaust, trace |-> trace]
    ELSE LET status == AnswerAt(answers, attempt)
             sent == Append(trace, GetEvent(attempt))
         IN  IF status = 200
             THEN [outcome |-> "json", trace |-> sent]
             ELSE IF status = 429
             THEN RetryLoop(answers, attempt + 1,
                            Append(sent, SleepEvent(attempt)), on_exhaust)
             ELSE [outcome |-> "none", trace |-> sent]

\* after the loop: logger.error("Max retries exceeded"); return None
DetailOnExhaust == "none"

fetch_medicine_detail(answers) == RetryLoop(answers, 0, <<>>, DetailOnExhaust)

\* after the loop: raise Exception("Max retries exceeded")
ListOnExhaust_None == "none"
ListOnExhaust == "raise"

list_medicines(answers) == RetryLoop(answers, 0, <<>>, ListOnExhaust)

\* Projections of a call's trace
Requests(call) == SelectSeq(call.trace, LAMBDA e : e.ev = "GET")
Waits(call) == SelectSeq(call.trace, LAMBDA e : e.ev = "sleep")

RECURSIVE SeqsUpTo(_, _)
SeqsUpTo(S, n) ==
    IF n = 0 THEN {<<>>}
    ELSE LET shorter == SeqsUpTo(S, n - 1)
         IN  shorter \cup {Append(s, x) : s \in shorter, x \in S}

AnswerScripts == SeqsUpTo(StatusCodes, MaxAnswers) \ {<<>>}

NoCall == [outcome |-> "idle", trace |-> <<>>]

(***************************************************************************)
(* The client assertion.  A token is kept as its header and claim set; the *)
(* signature is not modelled.  The clock is read in half seconds, so that   *)
(* int(time.time()) has a fraction to drop.  A URL built by '+' is kept as  *)
(* the sequence of its operands.                                            *)
(***************************************************************************)
BASE_URL == "https://int.api.service.nhs.uk/oauth2"

\* int(time.time())
current_time(clock) == clock \div 2

\* FetchAdditionalField generate_jwt_token
generate_jwt_token_Short(api_key, key_id, jti, clock) ==
    [headers |-> [alg |-> "RS512", typ |-> "JWT", kid |-> key_id],
     payload |-> [iss |-> api_key, sub |-> api_key,
                  aud |-> <<BASE_URL, "/token">>, jti |-> jti,
                  exp |-> current_time(clock) + 30]]
generate_jwt_token(api_key, key_id, jti, clock) ==
    [headers |-> [alg |-> "RS512", typ |-> "JWT", kid |-> key_id],
     payload |-> [iss |-> api_key, sub |-> api_key,
                  aud |-> <<BASE_URL, "/token">>, jti |-> jti,
                  exp |-> current_time(clock) + 300]]

\* ListAllMedicines generate_jwt_token
generate_jwt_token_sync(api_key, key_id, jti, clock) ==
    [headers |-> [alg |-> "RS512", typ |-> "JWT", kid |-> key_id],
     payload |-> [iss |-> api_key, sub |-> api_key,
                  aud |-> <<BASE_URL, "/token">>, jti |-> jti,
                  exp |-> current_time(clock) + 300]]

ApiKeys == {"app-1", "app-2", "app-3"}
KeyIds == {"kid-1", "kid-2"}
Uuids == {"uuid-a", "uuid-b"}

NoJwt == [by |-> "none", api_key |-> "", key_id |-> "", clock |-> 0,
          token |-> generate_jwt_token("", "", "", 0)]

(***************************************************************************)
(* The store of the backfill job and the detail endpoint.                  *)
(* A store item is [URL, Name, field]; update_dynamodb addresses it by the *)
(* key {URL, Name}.  field is the ADDITIONAL_FIELD attribute.              *)
(***************************************************************************)
NoKey == 0                  \* last_evaluated_key = None
BatchSize == 25             \* the 25 of the while condition, the cut and moreItems
ScanLimit == 25             \* 'Limit': 25

Absent == [set |-> FALSE, value |-> 0]
Present(v) == [set |-> TRUE, value |-> v]

BadKinds == {"nofield", "error", "limited"}

\* what the detail endpoint answers to the GETs of one call, by kind
DetailAnswers(kind) ==
    CASE kind = "field"   -> <<200>>
      [] kind = "nofield" -> <<200>>
      [] kind = "error"   -> <<404>>
      [] kind = "limited" -> <<429>>
      [] kind = "slow"    -> <<429, 429, 429, 200>>

\* ADDITIONAL_FIELD in medicine_detail, for a document of that kind
DocHasField(kind) == kind \in {"field", "slow"}

\* medicine_detail[ADDITIONAL_FIELD] of the document at url
UpstreamValue(url) == url

\* the entries a run can never fill
Fillable(url) == DocHasField(upstream[url])

MkItem(url, name, prefilled) ==
    [URL |-> url, Name |-> name,
     field |-> IF prefilled THEN Present(0) ELSE Absent]

\* n items; with alias, items 2 and 3 are two names of one URL
MkStore(n, alias, prefilled) ==
    [i \in 1..n |->
        MkItem(IF alias /\ i = 3 THEN 2 ELSE i, i, i \in prefilled)]

StoreSizes == {0, 2} \cup ((BatchSize - 1)..MaxStore)

UpstreamPatterns ==
    {[u \in 1..MaxStore |-> "field"],
     [u \in 1..MaxStore |-> IF u = 1 THEN "slow" ELSE "field"]}
    \cup {[u \in 1..MaxStore |-> IF u = 1 THEN k ELSE "field"] : k \in BadKinds}
    \cup {[u \in 1..MaxStore |-> IF u = 2 THEN k ELSE "field"] : k \in BadKinds}
    \cup {[u \in 1..MaxStore |-> IF u <= BatchSize THEN k ELSE "field"] :
              k \in BadKinds}

PrefilledPatterns(n) == {{}, {i \in 1..n : i % 3 = 1}}

\* FilterExpression: Attr(ADDITIONAL_FIELD).not_exists()
FilterNotExists(items) == SelectSeq(items, LAMBDA it : ~it.field.set)

\* table.scan(FilterExpression, Limit, ExclusiveStartKey): the page that
\* evaluates k items after position start; at_end: the store reports a key
\* although the page ended on the last item.  A key is the position of the
\* last item evaluated.
Scan(st, start, k, at_end) ==
    LET last == Min(start + k, Len(st))
    IN  [Items |-> FilterNotExists(SubSeq(st, start + 1, last)),
         LastEvaluatedKey |->
            IF last < Len(st) THEN last
            ELSE IF start + k = Len(st) /\ at_end THEN last
            ELSE NoKey]

\* table.update_item(Key={URL, Name}, SET #field = :value): an upsert
update_item_Toggle(st, url, name, value) ==
    [i \in 1..Len(st) |->
        IF st[i].URL = url /\ st[i].Name = name
        THEN [st[i] EXCEPT !.field = IF st[i].field.set THEN Absent
                                     ELSE Present(value)]
        ELSE st[i]]
update_item_Insert(st, url, name, value) ==
    Append(st, [URL |-> url, Name |-> name, field |-> Present(value)])
update_item(st, url, name, value) ==
    IF \E i \in 1..Len(st) : st[i].URL = url /\ st[i].Name = name
    THEN [i \in 1..Len(st) |->
            IF st[i].URL = url /\ st[i].Name = name
            THEN [st[i] EXCEPT !.field = Present(value)]
            ELSE st[i]]
    ELSE Append(st, [URL |-> url, Name |-> name, field |-> Present(value)])

\* update_dynamodb: True, or False when update_item raised ClientError
update_dynamodb(client_error) == ~client_error

\* query_params['ExclusiveStartKey'], set only if last_evaluated_key
ExclusiveStartKey(lek) == lek

\* while len(accumulated_items) < 25
ScanLoopGuard(acc) == Len(acc) < BatchSize

\* accumulated_items = accumulated_items[:25]
CapBatch_None(acc) == acc
CapBatch(acc) == SubSeq(acc, 1, Min(BatchSize, Len(acc)))

\* more_items = len(accumulated_items) == 25
MoreItems(acc) == Len(acc) = BatchSize

\* get_access_token: the access token on 200, else raise Exception
get_access_token_Lenient(status) == "token"
get_access_token(status) == IF status = 200 THEN "token" ELSE "raise"

TokenStatuses == {200, 401}

ErrorResult(msg) == [statusCode |-> 500, body |-> msg]

(***************************************************************************)
(* The backfill job: FetchAdditionalField lambda_handler.                  *)
(***************************************************************************)
BackfillLocalsInit ==
    /\ accumulated_items = <<>>
    /\ last_evaluated_key = NoKey
    /\ item_idx = 1
    /\ processed_items = {}
    /\ scan_count = 0
    /\ first_scan_start = NoKey
    /\ fetch_log = <<>>

\* no second invocation
NoOther == [pc |-> "absent"]

BackfillIdle ==
    /\ event = [continuationCursor |-> NoKey]
    /\ store = <<>>
    /\ upstream = <<>>
    /\ store0 = <<>>
    /\ other = NoOther
    /\ BackfillLocalsInit

SyncIdle ==
    /\ catalog = <<>>
    /\ page = 1
    /\ medicines_data = <<>>
    /\ page_log = <<>>
    /\ table = <<>>
    /\ put_idx = 1
    /\ table0 = <<>>
    /\ runs = 1

FetchIdle ==
    /\ last_answers = <<>>
    /\ last_call = NoCall
    /\ jwt = NoJwt

HandlerStart ==
    /\ pc = "secrets"
    /\ result = NoResult
    /\ exception = ""
    /\ token_posts = 0
    /\ token_status = 0

\* the stores, upstreams and events one backfill invocation is run against
BackfillEnvironments ==
    {[n |-> n, up |-> up, alias |-> FALSE, prefilled |-> {}, cursor |-> NoKey] :
        n \in StoreSizes, up \in UpstreamPatterns}
    \cup UNION {
          {[n |-> n, up |-> [u \in 1..MaxStore |-> "field"], alias |-> a,
            prefilled |-> pre, cursor |-> c] :
              a \in BOOLEAN, pre \in PrefilledPatterns(n), c \in {NoKey, 1}} :
          n \in StoreSizes}

InitBackfill ==
    /\ job = "backfill"
    /\ HandlerStart
    /\ \E env \in BackfillEnvironments :
          /\ store = MkStore(env.n, env.alias, env.prefilled)
          /\ upstream = env.up
          /\ event = [continuationCursor |-> env.cursor]
    /\ store0 = store
    /\ other = NoOther
    /\ BackfillLocalsInit
    /\ SyncIdle
    /\ FetchIdle

Returns(res) ==
    /\ result' = res
    /\ exception' = ""
    /\ pc' = "done"

Raises(exc) ==
    /\ result' = NoResult
    /\ exception' = exc
    /\ pc' = "raised"

\* lines 139-141: both get_secret calls succeed
BF_GetSecrets ==
    /\ job = "backfill" /\ pc = "secrets"
    /\ pc' = "decode"
    /\ UNCHANGED <<job, result, exception, token_posts, token_status, backfill_vars,
                   sync_vars, fetch_vars>>

\* lines 142-147: get_secret raised; the handler returns 500
BF_GetSecretsFails ==
    /\ job = "backfill" /\ pc = "secrets"
    /\ Returns(ErrorResult("Error fetching secrets"))
    /\ UNCHANGED <<job, token_posts, token_status, backfill_vars,
                   sync_vars, fetch_vars>>

\* lines 150-153: the secret is a plain string (JSONDecodeError, pass) or
\* a JSON object holding API_KEY
BF_DecodeApiKey ==
    /\ job = "backfill" /\ pc = "decode"
    /\ pc' = "load_key"
    /\ UNCHANGED <<job, result, exception, token_posts, token_status, backfill_vars,
                   sync_vars, fetch_vars>>

\* line 151: the secret is JSON without API_KEY (KeyError or TypeError,
\* which except json.JSONDecodeError does not catch)
BF_DecodeApiKeyRaises ==
    /\ job = "backfill" /\ pc = "decode"
    /\ Raises("KeyError")
    /\ UNCHANGED <<job, token_posts, token_status, backfill_vars,
                   sync_vars, fetch_vars>>

\* lines 155-159: load_pem_private_key succeeds
BF_LoadPrivateKey ==
    /\ job = "backfill" /\ pc = "load_key"
    /\ pc' = "token"
    /\ UNCHANGED <<job, result, exception, token_posts, token_status, backfill_vars,
                   sync_vars, fetch_vars>>

\* lines 160-165: load_pem_private_key raised; the handler returns 500
BF_LoadPrivateKeyFails ==
    /\ job = "backfill" /\ pc = "load_key"
    /\ Returns(ErrorResult("Error loading private key"))
    /\ UNCHANGED <<job, token_posts, token_status, backfill_vars,
                   sync_vars, fetch_vars>>

\* lines 167-174 with get_access_token (67-84): one POST; on "raise" the
\* handler returns 500, else it goes on to the scan
BF_Token(status) ==
    /\ job = "backfill" /\ pc = "token"
    /\ token_posts' = token_posts + 1
    /\ token_status' = status
    /\ IF get_access_token(status) = "raise"
       THEN Returns(ErrorResult("Error getting access token"))
       ELSE pc' = "scan" /\ UNCHANGED <<result, exception>>
    /\ UNCHANGED <<job, backfill_vars, sync_vars, fetch_vars>>

BF_TokenIssued == BF_Token(200)

BF_TokenRefused == \E status \in TokenStatuses \ {200} : BF_Token(status)

\* lines 182-196: one iteration of the scan loop, the store answering with
\* a page of k evaluated items
BF_Scan(k, at_end) ==
    /\ job = "backfill" /\ pc = "scan"
    /\    LET start == ExclusiveStartKey(last_evaluated_key)
              response == Scan(store, start, k, at_end)
              acc == accumulated_items \o response.Items
          IN  /\ accumulated_items' = acc
              /\ last_evaluated_key' = response.LastEvaluatedKey
              /\ first_scan_start' =
                    IF scan_count = 0 THEN start ELSE first_scan_start
              /\ scan_count' = Min(scan_count + 1, 2)
              /\ pc' = IF response.LastEvaluatedKey # NoKey /\ ScanLoopGuard(acc)
                       THEN "scan" ELSE "cut"
    /\ UNCHANGED <<job, result, exception, token_posts, token_status, event, store,
                   upstream, item_idx, processed_items, fetch_log,
                   store0, other, sync_vars, fetch_vars>>

BF_ScanPage == \E k \in 1..ScanLimit, at_end \in BOOLEAN : BF_Scan(k, at_end)

\* the store evaluates a full page of Limit items
BF_ScanFullPage == BF_Scan(ScanLimit, FALSE)

\* line 190: table.scan raised ClientError; nothing catches it
BF_ScanRaises ==
    /\ job = "backfill" /\ pc = "scan"
    /\ Raises("ClientError")
    /\ UNCHANGED <<job, token_posts, token_status, backfill_vars,
                   sync_vars, fetch_vars>>

\* line 198
BF_Cut ==
    /\ job = "backfill" /\ pc = "cut"
    /\ accumulated_items' = CapBatch(accumulated_items)
    /\ pc' = "items"
    /\ UNCHANGED <<job, result, exception, token_posts, token_status, event, store,
                   upstream, last_evaluated_key, item_idx, processed_items,
                   scan_count, first_scan_start, fetch_log,
                   store0, other, sync_vars, fetch_vars>>

CurrentItem == accumulated_items[item_idx]

CurrentCall == fetch_medicine_detail(DetailAnswers(upstream[CurrentItem.URL]))

\* line 215: medicine_detail and ADDITIONAL_FIELD in medicine_detail
DetailHasField(call, kind) == call.outcome = "json" /\ DocHasField(kind)

\* the target field is on the store's item of that key
FieldInStore(item) ==
    \E i \in 1..Len(store) :
        /\ store[i].URL = item.URL /\ store[i].Name = item.Name
        /\ store[i].field.set

LogEntry(item, call, update) ==
    [URL |-> item.URL, Name |-> item.Name, detail |-> call.outcome,
     requests |-> Len(Requests(call)),
     has_field |-> DocHasField(upstream[item.URL]), update |-> update]

\* lines 208-222, document with the field: update_dynamodb is called;
\* client_error: update_item raises ClientError
BF_ItemUpdate(client_error) ==
    /\ job = "backfill" /\ pc = "items"
    /\ item_idx <= Len(accumulated_items)
    /\ CurrentCall.outcome # "raise"
    /\ DetailHasField(CurrentCall, upstream[CurrentItem.URL])
    /\ store' = IF client_error THEN store
                ELSE update_item(store, CurrentItem.URL, CurrentItem.Name,
                                 UpstreamValue(CurrentItem.URL))
    /\ processed_items' = IF update_dynamodb(client_error)
                          THEN processed_items \cup {CurrentItem.URL}
                          ELSE processed_items
    /\ fetch_log' = Append(fetch_log,
                           LogEntry(CurrentItem, CurrentCall,
                                    IF client_error THEN "failed" ELSE "ok"))
    /\ item_idx' = item_idx + 1
    /\ UNCHANGED <<job, pc, result, exception, token_posts, token_status, event, upstream,
                   accumulated_items, last_evaluated_key, scan_count,
                   first_scan_start, store0, other, sync_vars, fetch_vars>>

BF_ItemUpdated == BF_ItemUpdate(FALSE)

BF_ItemUpdateFails ==
    /\ item_idx <= MaxFaultIdx
    /\ BF_ItemUpdate(TRUE)

\* lines 208-215, 223-224: no document, or a document without the field
BF_ItemSkipped ==
    /\ job = "backfill" /\ pc = "items"
    /\ item_idx <= Len(accumulated_items)
    /\ CurrentCall.outcome # "raise"
    /\ ~DetailHasField(CurrentCall, upstream[CurrentItem.URL])
    /\ fetch_log' = Append(fetch_log, LogEntry(CurrentItem, CurrentCall, "none"))
    /\ item_idx' = item_idx + 1
    /\ UNCHANGED <<job, pc, result, exception, token_posts, token_status, event, store,
                   upstream, accumulated_items, last_evaluated_key,
                   processed_items, scan_count, first_scan_start,
                   store0, other, sync_vars, fetch_vars>>

\* line 96 under line 213: requests.get raised (no route, timeout);
\* nothing catches it
BF_ItemFetchRaises ==
    /\ job = "backfill" /\ pc = "items"
    /\ item_idx <= Min(MaxFaultIdx, Len(accumulated_items))
    /\ Raises("RequestException")
    /\ UNCHANGED <<job, token_posts, token_status, backfill_vars,
                   sync_vars, fetch_vars>>

\* lines 226-234
BackfillResult(acc, processed) ==
    [statusCode |-> 200, moreItems |-> MoreItems(acc), ProcessedItems |-> processed]

BF_Return ==
    /\ job = "backfill" /\ pc = "items"
    /\ item_idx > Len(accumulated_items)
    /\ Returns(BackfillResult(accumulated_items, processed_items))
    /\ UNCHANGED <<job, token_posts, token_status, backfill_vars,
                   sync_vars, fetch_vars>>

(***************************************************************************)
(* The full-sync job: ListAllMedicines lambda_handler.                     *)
(* A URL is the sequence of its '/'-separated parts, so a trailing '/'     *)
(* shows as a trailing empty part.                                         *)
(***************************************************************************)
Last(seq) == seq[Len(seq)]

\* str.rstrip('/')
RECURSIVE rstrip(_)
rstrip(parts) ==
    IF Len(parts) > 1 /\ Last(parts) = ""
    THEN rstrip(SubSeq(parts, 1, Len(parts) - 1))
    ELSE parts

\* entry_id = item['url'].rstrip('/').split('/')[-1]
entry_id_NoStrip(url) == Last(url)
entry_id(url) == Last(rstrip(url))

\* the key schema of the table put_item writes to
TableKey(item) == item.EntryId

\* table.put_item(Item=...): replaces the item of the same key, else adds it
put_item(tbl, item) ==
    IF \E i \in 1..Len(tbl) : TableKey(tbl[i]) = TableKey(item)
    THEN [i \in 1..Len(tbl) |->
            IF TableKey(tbl[i]) = TableKey(item) THEN item ELSE tbl[i]]
    ELSE Append(tbl, item)

\* the Item of lines 115-119
PutItemOf_Seq(m) ==
    [EntryId |-> ToString(Len(table) + 1), Name |-> m.name, URL |-> m.url]
PutItemOf(m) == [EntryId |-> entry_id(m.url), Name |-> m.name, URL |-> m.url]

\* link j of page p: the second link of a page is listed with a trailing
\* '/', and the first link of page 2 is a URL of another section that ends
\* in the segment of the first link of page 1
MkLink(p, j) ==
    [name |-> ToString(10 * p + j),
     url |-> IF j = 2 THEN <<"medicines", ToString(10 * p + j), "">>
             ELSE IF p = 2 /\ j = 1 THEN <<"conditions", ToString(11)>>
             ELSE <<"medicines", ToString(10 * p + j)>>]

MkPage(p, n, next) ==
    [significantLink |-> [j \in 1..n |-> MkLink(p, j)], next_page |-> next]

LinkCounts == {0, 1, MaxLinks}

PageShapes == [n : LinkCounts, next : BOOLEAN]

Catalogs ==
    UNION {{[p \in 1..len |-> MkPage(p, shape[p].n, shape[p].next)] :
                shape \in [1..len -> PageShapes]} :
           len \in 0..MaxPages}

\* the JSON body the listing endpoint answers for page p
PageBody(cat, p) ==
    IF p <= Len(cat) THEN cat[p]
    ELSE [significantLink |-> <<>>, next_page |-> FALSE]

\* what the listing endpoint answers to the GETs of one call
PageScripts == {<<200>>, <<429, 429, 429, 200>>, <<404>>, <<429>>}

\* line 150: not medicines or not medicines.get('significantLink')
ListingEnds_OnlyEmpty(call, body) == Len(body.significantLink) = 0
ListingEnds(call, body) ==
    call.outcome # "json" \/ Len(body.significantLink) = 0

\* lines 158-160: no related link named 'Next Page'
NoNextPage(body) == ~body.next_page

\* line 162: page += 1
NextPageNumber_Skip(p) == p + 2
NextPageNumber(p) == p + 1

\* lines 154-155
Extend(data, links) ==
    data \o [j \in 1..Len(links) |-> [name |-> links[j].name, url |-> links[j].url]]

InitSync ==
    /\ job = "sync"
    /\ HandlerStart
    /\ catalog \in Catalogs
    /\ page = 1
    /\ medicines_data = <<>>
    /\ page_log = <<>>
    /\ table = <<>>
    /\ put_idx = 1
    /\ table0 = <<>>
    /\ runs = 1
    /\ BackfillIdle
    /\ FetchIdle

\* lines 126-127: both get_secret calls succeed
SY_GetSecrets ==
    /\ job = "sync" /\ pc = "secrets"
    /\ pc' = "decode"
    /\ UNCHANGED <<job, result, exception, token_posts, token_status, backfill_vars,
                   sync_vars, fetch_vars>>

\* lines 126-127: get_secret raised; nothing catches it
SY_GetSecretsRaises ==
    /\ job = "sync" /\ pc = "secrets"
    /\ Raises("ClientError")
    /\ UNCHANGED <<job, token_posts, token_status, backfill_vars,
                   sync_vars, fetch_vars>>

\* lines 130-133
SY_DecodeApiKey ==
    /\ job = "sync" /\ pc = "decode"
    /\ pc' = "load_key"
    /\ UNCHANGED <<job, result, exception, token_posts, token_status, backfill_vars,
                   sync_vars, fetch_vars>>

\* line 131: the secret is JSON without API_KEY
SY_DecodeApiKeyRaises ==
    /\ job = "sync" /\ pc = "decode"
    /\ Raises("KeyError")
    /\ UNCHANGED <<job, token_posts, token_status, backfill_vars,
                   sync_vars, fetch_vars>>

\* lines 135-138
SY_LoadPrivateKey ==
    /\ job = "sync" /\ pc = "load_key"
    /\ pc' = "token"
    /\ UNCHANGED <<job, result, exception, token_posts, token_status, backfill_vars,
                   sync_vars, fetch_vars>>

\* lines 135-138: load_pem_private_key raised; nothing catches it
SY_LoadPrivateKeyRaises ==
    /\ job = "sync" /\ pc = "load_key"
    /\ Raises("ValueError")
    /\ UNCHANGED <<job, token_posts, token_status, backfill_vars,
                   sync_vars, fetch_vars>>

\* line 143 with get_access_token (66-83): one POST; the raise is not caught
SY_Token(status) ==
    /\ job = "sync" /\ pc = "token"
    /\ token_posts' = token_posts + 1
    /\ token_status' = status
    /\ IF get_access_token(status) = "raise"
       THEN Raises("Failed to get access token")
       ELSE pc' = "list" /\ UNCHANGED <<result, exception>>
    /\ UNCHANGED <<job, backfill_vars, sync_vars, fetch_vars>>

SY_TokenIssued == SY_Token(200)

SY_TokenRefused == \E status \in TokenStatuses \ {200} : SY_Token(status)

\* write_to_dynamodb(medicines_data): every put, in order
RECURSIVE write_to_dynamodb(_, _)
write_to_dynamodb(tbl, data) ==
    IF data = <<>> THEN tbl
    ELSE write_to_dynamodb(put_item(tbl, PutItemOf(data[1])),
                           SubSeq(data, 2, Len(data)))

\* the entries of the first k pages of a catalog, in listing order
RECURSIVE CatalogEntries(_, _)
CatalogEntries(cat, k) ==
    IF k = 0 THEN <<>>
    ELSE Extend(CatalogEntries(cat, k - 1), PageBody(cat, k).significantLink)

\* the listing loop writing each page to the table as it arrives
SY_ListPage_WriteThrough(script) ==
    /\ job = "sync" /\ pc = "list"
    /\ LET call == list_medicines(script)
           body == PageBody(catalog, page)
           entry == [page |-> page, outcome |-> call.outcome,
                     requests |-> Len(Requests(call)),
                     limited |-> AllLimited(script),
                     links |-> IF call.outcome = "json"
                               THEN Len(body.significantLink) ELSE 0,
                     next_page |-> call.outcome = "json" /\ body.next_page]
       IN  /\ page_log' = Append(page_log, entry)
           /\ IF call.outcome = "raise"
              THEN /\ Raises("Max retries exceeded")
                   /\ UNCHANGED <<page, medicines_data, table>>
              ELSE IF ListingEnds(call, body)
              THEN /\ pc' = "write"
                   /\ UNCHANGED <<page, medicines_data, table, result, exception>>
              ELSE /\ medicines_data' = Extend(medicines_data, body.significantLink)
                   /\ table' = write_to_dynamodb(table,
                                    Extend(<<>>, body.significantLink))
                   /\ IF NoNextPage(body)
                      THEN pc' = "write" /\ UNCHANGED page
                      ELSE pc' = "list" /\ page' = NextPageNumber(page)
                   /\ UNCHANGED <<result, exception>>
    /\ UNCHANGED <<job, token_posts, token_status, backfill_vars, catalog,
                   put_idx, table0, runs, fetch_vars>>

\* lines 147-162: one iteration of the listing loop
SY_ListPage(script) ==
    /\ job = "sync" /\ pc = "list"
    /\ LET call == list_medicines(script)
           body == PageBody(catalog, page)
           entry == [page |-> page, outcome |-> call.outcome,
                     requests |-> Len(Requests(call)),
                     limited |-> AllLimited(script),
                     links |-> IF call.outcome = "json"
                               THEN Len(body.significantLink) ELSE 0,
                     next_page |-> call.outcome = "json" /\ body.next_page]
       IN  /\ page_log' = Append(page_log, entry)
           /\ IF call.outcome = "raise"
              THEN Raises("Max retries exceeded") /\ UNCHANGED <<page, medicines_data>>
              ELSE IF ListingEnds(call, body)
              THEN pc' = "write" /\ UNCHANGED <<page, medicines_data, result, exception>>
              ELSE /\ medicines_data' = Extend(medicines_data, body.significantLink)
                   /\ IF NoNextPage(body)
                      THEN pc' = "write" /\ UNCHANGED page
                      ELSE pc' = "list" /\ page' = NextPageNumber(page)
                   /\ UNCHANGED <<result, exception>>
    /\ UNCHANGED <<job, token_posts, token_status, backfill_vars, catalog,
                   table, put_idx, table0, runs, fetch_vars>>

\* the page is answered 200, at once or after 429s
SY_PageListed == \E script \in {<<200>>, <<429, 429, 429, 200>>} : SY_ListPage(script)

\* the page is answered a status that is neither 200 nor 429
SY_PageRefused == SY_ListPage(<<404>>)

\* the page is answered 429 on every attempt
SY_PageLimited == SY_ListPage(<<429>>)

\* lines 112-120: one iteration of write_to_dynamodb
SY_PutItem ==
    /\ job = "sync" /\ pc = "write"
    /\ put_idx <= Len(medicines_data)
    /\ table' = put_item(table, PutItemOf(medicines_data[put_idx]))
    /\ put_idx' = put_idx + 1
    /\ UNCHANGED <<job, pc, result, exception, token_posts, token_status, backfill_vars,
                   catalog, page, medicines_data, page_log, table0, runs,
                   fetch_vars>>

\* line 114: put_item raised ClientError; nothing catches it
SY_PutItemRaises ==
    /\ job = "sync" /\ pc = "write"
    /\ put_idx <= Len(medicines_data)
    /\ Raises("ClientError")
    /\ UNCHANGED <<job, token_posts, token_status, backfill_vars,
                   sync_vars, fetch_vars>>

\* lines 167-170
SyncResult == [statusCode |-> 200, body |-> "saved"]

SY_Return ==
    /\ job = "sync" /\ pc = "write"
    /\ put_idx > Len(medicines_data)
    /\ Returns(SyncResult)
    /\ UNCHANGED <<job, token_posts, token_status, backfill_vars,
                   sync_vars, fetch_vars>>

NextSync ==
    \/ SY_GetSecrets
    \/ SY_GetSecretsRaises
    \/ SY_DecodeApiKey
    \/ SY_DecodeApiKeyRaises
    \/ SY_LoadPrivateKey
    \/ SY_LoadPrivateKeyRaises
    \/ SY_TokenIssued
    \/ SY_TokenRefused
    \/ SY_PageListed
    \/ SY_PageRefused
    \/ SY_PageLimited
    \/ SY_PutItem
    \/ SY_PutItemRaises
    \/ SY_Return

(***************************************************************************)
(* The full-sync job run twice in a row against one catalog; a page may be *)
(* answered 429 on every attempt, no other fault is injected.              *)
(***************************************************************************)
SY_Rerun ==
    /\ job = "sync" /\ pc = "done" /\ runs = 1
    /\ runs' = runs + 1
    /\ table0' = table
    /\ pc' = "secrets"
    /\ result' = NoResult
    /\ exception' = ""
    /\ token_posts' = 0
    /\ token_status' = 0
    /\ page' = 1
    /\ medicines_data' = <<>>
    /\ page_log' = <<>>
    /\ put_idx' = 1
    /\ UNCHANGED <<job, backfill_vars, catalog, table, fetch_vars>>

NextResync ==
    \/ SY_GetSecrets
    \/ SY_DecodeApiKey
    \/ SY_LoadPrivateKey
    \/ SY_TokenIssued
    \/ SY_PageListed
    \/ SY_PageLimited
    \/ SY_PutItem
    \/ SY_Return
    \/ SY_Rerun

SpecResync == InitSync /\ [][NextResync]_vars

(***************************************************************************)
(* The fetch primitive on its own: every script of answers.                *)
(***************************************************************************)
InitFetch ==
    /\ job = "fetch"
    /\ pc = "idle"
    /\ result = NoResult
    /\ exception = ""
    /\ token_posts = 0
    /\ token_status = 0
    /\ BackfillIdle
    /\ SyncIdle
    /\ FetchIdle

FT_FetchDetail ==
    /\ job = "fetch" /\ pc = "idle"
    /\ \E answers \in AnswerScripts :
          /\ last_answers' = answers
          /\ last_call' = fetch_medicine_detail(answers)
    /\ pc' = "detail"
    /\ UNCHANGED <<job, result, exception, token_posts, token_status,
                   backfill_vars, sync_vars, jwt>>

FT_ListMedicines ==
    /\ job = "fetch" /\ pc = "idle"
    /\ \E answers \in AnswerScripts :
          /\ last_answers' = answers
          /\ last_call' = list_medicines(answers)
    /\ pc' = "list"
    /\ UNCHANGED <<job, result, exception, token_posts, token_status,
                   backfill_vars, sync_vars, jwt>>

NextFetch ==
    \/ FT_FetchDetail
    \/ FT_ListMedicines

SpecFetch == InitFetch /\ [][NextFetch]_vars

(***************************************************************************)
(* generate_jwt_token of either job on its own: every credential, clock    *)
(* reading and jti.                                                        *)
(***************************************************************************)
InitJwt ==
    /\ job = "jwt"
    /\ pc = "idle"
    /\ result = NoResult
    /\ exception = ""
    /\ token_posts = 0
    /\ token_status = 0
    /\ BackfillIdle
    /\ SyncIdle
    /\ FetchIdle

JW_Backfill ==
    /\ job = "jwt" /\ pc = "idle"
    /\ \E api_key \in ApiKeys, key_id \in KeyIds, jti \in Uuids,
          clock \in 0..MaxClock :
          /\ jwt' = [by |-> "backfill", api_key |-> api_key, key_id |-> key_id,
                     clock |-> clock,
                     token |-> generate_jwt_token(api_key, key_id, jti, clock)]
    /\ pc' = "built"
    /\ UNCHANGED <<job, result, exception, token_posts, token_status,
                   backfill_vars, sync_vars, last_answers, last_call>>

JW_Sync ==
    /\ job = "jwt" /\ pc = "idle"
    /\ \E api_key \in ApiKeys, key_id \in KeyIds, jti \in Uuids,
          clock \in 0..MaxClock :
          /\ jwt' = [by |-> "sync", api_key |-> api_key, key_id |-> key_id,
                     clock |-> clock,
                     token |-> generate_jwt_token_sync(api_key, key_id, jti,
                                                       clock)]
    /\ pc' = "built"
    /\ UNCHANGED <<job, result, exception, token_posts, token_status,
                   backfill_vars, sync_vars, last_answers, last_call>>

NextJwt ==
    \/ JW_Backfill
    \/ JW_Sync

SpecJwt == InitJwt /\ [][NextJwt]_vars

NextBackfill ==
    \/ BF_GetSecrets
    \/ BF_GetSecretsFails
    \/ BF_DecodeApiKey
    \/ BF_DecodeApiKeyRaises
    \/ BF_LoadPrivateKey
    \/ BF_LoadPrivateKeyFails
    \/ BF_TokenIssued
    \/ BF_TokenRefused
    \/ BF_ScanPage
    \/ BF_ScanRaises
    \/ BF_Cut
    \/ BF_ItemUpdated
    \/ BF_ItemUpdateFails
    \/ BF_ItemSkipped
    \/ BF_ItemFetchRaises
    \/ BF_Return

SpecBackfill == InitBackfill /\ [][NextBackfill]_vars

SpecSync == InitSync /\ [][NextSync]_vars

Init == InitBackfill \/ InitSync

Next == NextBackfill \/ NextSync

Spec == Init /\ [][Next]_vars

(***************************************************************************)
(* The external loop around the backfill job: invoke again while the       *)
(* result says moreItems, handing back the result's cursor.  The upstream  *)
(* answers by kind and never changes; no fault is injected.                *)
(***************************************************************************)
InitLoop ==
    /\ job = "backfill"
    /\ HandlerStart
    /\ \E n \in StoreSizes, up \in UpstreamPatterns :
          /\ store = MkStore(n, FALSE, {})
          /\ upstream = up
    /\ event = [continuationCursor |-> NoKey]
    /\ store0 = store
    /\ other = NoOther
    /\ BackfillLocalsInit
    /\ SyncIdle
    /\ FetchIdle

\* the cursor the caller hands to the next invocation
CursorOf(res) ==
    IF "nextCursor" \in DOMAIN res THEN res.nextCursor ELSE NoKey

LP_Reinvoke ==
    /\ job = "backfill" /\ pc = "done"
    /\ result.statusCode = 200 /\ result.moreItems
    /\ event' = [continuationCursor |-> CursorOf(result)]
    /\ pc' = "secrets"
    /\ result' = NoResult
    /\ exception' = ""
    /\ token_posts' = 0
    /\ token_status' = 0
    /\ accumulated_items' = <<>>
    /\ last_evaluated_key' = NoKey
    /\ item_idx' = 1
    /\ processed_items' = {}
    /\ scan_count' = 0
    /\ first_scan_start' = NoKey
    /\ fetch_log' = <<>>
    /\ UNCHANGED <<job, store, upstream, store0, other, sync_vars, fetch_vars>>

LP_Stop ==
    /\ job = "backfill" /\ pc = "done"
    /\ result.statusCode = 200 /\ ~result.moreItems
    /\ pc' = "stopped"
    /\ UNCHANGED <<job, result, exception, token_posts, token_status,
                   backfill_vars, sync_vars, fetch_vars>>

NextLoop ==
    \/ BF_GetSecrets
    \/ BF_DecodeApiKey
    \/ BF_LoadPrivateKey
    \/ BF_TokenIssued
    \/ BF_ScanPage
    \/ BF_Cut
    \/ BF_ItemUpdated
    \/ BF_ItemSkipped
    \/ BF_Return
    \/ LP_Reinvoke
    \/ LP_Stop

\* every step of a handler completes and the loop invokes again while it may
SpecLoop == InitLoop /\ [][NextLoop]_vars /\ WF_vars(NextLoop)

(***************************************************************************)
(* Two backfill invocations over one store.  One invocation runs on the    *)
(* variables of the job, the other is suspended in `other`; a switch       *)
(* suspends the running one and resumes the other, so the steps of the two *)
(* interleave in every order.  A step is one store or upstream call of the *)
(* handler.  The upstream never changes and no fault is injected.          *)
(***************************************************************************)
Locals ==
    [pc |-> pc, result |-> result, exception |-> exception,
     token_posts |-> token_posts, token_status |-> token_status,
     accumulated_items |-> accumulated_items,
     last_evaluated_key |-> last_evaluated_key, item_idx |-> item_idx,
     processed_items |-> processed_items, scan_count |-> scan_count,
     first_scan_start |-> first_scan_start, fetch_log |-> fetch_log]

\* the stores two concurrent invocations are run against: 2 items, and
\* MaxStore items of which none, or the first and the last, have the field
ConcStores ==
    {MkStore(2, FALSE, {})}
    \cup {MkStore(MaxStore, FALSE, pre) : pre \in {{}, {1, MaxStore}}}

ConcUpstreams ==
    {[u \in 1..MaxStore |-> "field"],
     [u \in 1..MaxStore |-> IF u = 2 THEN "nofield" ELSE "field"]}

InitConc ==
    /\ job = "backfill"
    /\ HandlerStart
    /\ store \in ConcStores
    /\ upstream \in ConcUpstreams
    /\ event = [continuationCursor |-> NoKey]
    /\ store0 = store
    /\ BackfillLocalsInit
    /\ other = Locals
    /\ SyncIdle
    /\ FetchIdle

\* the running invocation is suspended and the other one resumed
CX_Switch ==
    /\ job = "backfill"
    /\ other # NoOther
    /\ other.pc # "done"
    /\ other' = Locals
    /\ pc' = other.pc
    /\ result' = other.result
    /\ exception' = other.exception
    /\ token_posts' = other.token_posts
    /\ token_status' = other.token_status
    /\ accumulated_items' = other.accumulated_items
    /\ last_evaluated_key' = other.last_evaluated_key
    /\ item_idx' = other.item_idx
    /\ processed_items' = other.processed_items
    /\ scan_count' = other.scan_count
    /\ first_scan_start' = other.first_scan_start
    /\ fetch_log' = other.fetch_log
    /\ UNCHANGED <<job, event, store, upstream, store0, sync_vars, fetch_vars>>

NextConc ==
    \/ BF_GetSecrets
    \/ BF_DecodeApiKey
    \/ BF_LoadPrivateKey
    \/ BF_TokenIssued
    \/ BF_ScanFullPage
    \/ BF_Cut
    \/ BF_ItemUpdated
    \/ BF_ItemSkipped
    \/ BF_Return
    \/ CX_Switch

SpecConc == InitConc /\ [][NextConc]_vars

\* lines 176-198: the batch one invocation accumulates from a store that no
\* one else writes to: the first 25 items without the field
BatchOf(st) == CapBatch(FilterNotExists(st))

\* lines 208-224 over a batch, no fault injected
RECURSIVE ProcessItems(_, _)
ProcessItems(st, acc) ==
    IF acc = <<>> THEN st
    ELSE LET item == acc[1]
             kind == upstream[item.URL]
             call == fetch_medicine_detail(DetailAnswers(kind))
         IN  ProcessItems(IF DetailHasField(call, kind)
                          THEN update_item(st, item.URL, item.Name,
                                           UpstreamValue(item.URL))
                          ELSE st,
                          SubSeq(acc, 2, Len(acc)))

\* the store one whole invocation leaves
Invoke(st) == ProcessItems(st, BatchOf(st))

\* the store two invocations leave when one follows the other
Sequential(st) == Invoke(Invoke(st))

(***************************************************************************)
(* Properties.                                                             *)
(***************************************************************************)
BackfillReturned == job = "backfill" /\ pc = "done" /\ result.statusCode = 200

\* C1: one backfill invocation processes a batch of at most 25 entries (the
\* accumulated list is cut to 25 before the first entry is processed), and
\* the moreItems it returns is true exactly when the batch held 25 entries.
C1_BatchAtMost25 ==
    job = "backfill" =>
        /\ pc \in {"items", "done", "raised"} =>
              Len(accumulated_items) <= BatchSize
        /\ Len(fetch_log) <= BatchSize
        /\ BackfillReturned =>
              /\ Len(fetch_log) = Len(accumulated_items)
              /\ result.moreItems <=> (Len(fetch_log) = 25)

\* the scan read a store of more than 25 entries lacking the field to its
\* end, and the invocation processed 25 of them and returned moreItems
C1_Witness ==
    /\ BackfillReturned
    /\ result.moreItems
    /\ Len(store) > BatchSize
    /\ last_evaluated_key = NoKey
    /\ \A i \in 1..Len(store) : store[i].field # Present(0)
    /\ Len(fetch_log) = BatchSize

\* C2: no invocation of either job ends in an uncaught exception: whatever
\* collaborator fails, the handler returns a result carrying a status.
C2_NeverThrows ==
    /\ pc # "raised"
    /\ exception = ""
    /\ pc = "done" => result.statusCode \in {200, 500}

FailedEntry(e) == e.detail = "none" \/ e.update = "failed"

\* C3: in a backfill invocation a failure on one entry (detail fetch refused,
\* detail fetch out of attempts on 429, store update failed) does not abort
\* the batch: every entry of the batch is fetched, every entry whose document
\* has the field is given to the store update, and the key of a failed entry
\* is not in the returned set of updated keys.
C3_FailureIsolated ==
    BackfillReturned =>
        /\ Len(fetch_log) = Len(accumulated_items)
        /\ \A i \in 1..Len(fetch_log) :
              /\ fetch_log[i].URL = accumulated_items[i].URL
              /\ fetch_log[i].requests >= 1
              /\ (fetch_log[i].detail = "json" /\ fetch_log[i].has_field)
                    => fetch_log[i].update # "none"
              /\ FailedEntry(fetch_log[i])
                    => fetch_log[i].URL \notin result.ProcessedItems

\* C4: the token endpoint is asked at most once per invocation and exactly
\* once by an invocation that got past it; when it answers a status other
\* than 200 the invocation is over: the backfill job has returned status 500
\* without a scan, a detail fetch or a store update, and the full-sync job
\* has ended without a page request or a store write.
C4_TokenOnceAndAbort ==
    /\ token_posts <= 1
    /\ pc \in {"scan", "cut", "items", "list", "write"} =>
          token_posts = 1 /\ token_status = 200
    /\ (pc = "done" /\ result.statusCode = 200) =>
          token_posts = 1 /\ token_status = 200
    /\ (token_posts = 1 /\ token_status # 200) =>
          /\ job = "backfill" =>
                /\ pc = "done" /\ result.statusCode = 500
                /\ scan_count = 0
                /\ fetch_log = <<>>
                /\ processed_items = {}
                /\ \A i \in 1..Len(store) : store[i].field.value = 0
          /\ job = "sync" =>
                /\ pc = "raised"
                /\ page_log = <<>>
                /\ table = <<>>
                /\ table0 = <<>>

\* the token endpoint refused a backfill invocation
C4_Witness ==
    /\ job = "backfill"
    /\ pc = "done"
    /\ token_posts = 1
    /\ token_status = 401
    /\ Len(store) > 0

\* C5: the first scan of an invocation starts from the continuation cursor
\* of the event, and the result carries nextCursor, equal to the
\* continuation token of the last scan page read.
C5_CursorRoundTrip ==
    job = "backfill" =>
        /\ scan_count >= 1 => first_scan_start = event.continuationCursor
        /\ BackfillReturned =>
              /\ "nextCursor" \in DOMAIN result
              /\ result.nextCursor = last_evaluated_key

AllFillableFilled ==
    \A i \in 1..Len(store) : Fillable(store[i].URL) => store[i].field.set

\* C6: the loop that invokes the backfill job until moreItems is false
\* eventually stops, and when it has stopped every store entry whose detail
\* document has the field has the field set.
C6_LoopStopsFilled ==
    /\ <>(pc = "stopped")
    /\ [](pc = "stopped" => AllFillableFilled)

\* C7: for every entry of the batch, the store update is issued only if the
\* fetched document contains the field, and the entry's key is in the
\* returned set of updated keys exactly when the document contained the
\* field and the store update succeeded.
C7_UpdatedKeysExact ==
    BackfillReturned =>
        \A i \in 1..Len(fetch_log) :
            /\ fetch_log[i].update # "none" => fetch_log[i].has_field
            /\ fetch_log[i].URL \in result.ProcessedItems
                  <=> (fetch_log[i].has_field /\ fetch_log[i].update = "ok")

RECURSIVE SumLinks(_)
SumLinks(log) ==
    IF log = <<>> THEN 0
    ELSE log[1].links + SumLinks(SubSeq(log, 2, Len(log)))

ListingOver == job = "sync" /\ pc \in {"write", "done"}

TwoPageScenario ==
    /\ Len(catalog) = 2
    /\ Len(catalog[1].significantLink) = 2 /\ catalog[1].next_page
    /\ Len(catalog[2].significantLink) = 1 /\ ~catalog[2].next_page

\* C8: the listing asks for pages 1, 2, 3, ... in order without gaps, goes on
\* only after a page with significant links and a "Next Page" link and stops
\* after the first page without one of them, asks for at most one page more
\* than the catalog has, and collects as many entries as the pages it asked
\* for hold significant links; pages (2 links, next) and (1 link, no next)
\* give 3 entries in 2 page requests.
C8_ListingWalk ==
    job = "sync" =>
        /\ \A i \in 1..Len(page_log) : page_log[i].page = i
        /\ \A i \in 1..(Len(page_log) - 1) :
              /\ page_log[i].outcome = "json"
              /\ page_log[i].links > 0
              /\ page_log[i].next_page
        /\ Len(page_log) <= Len(catalog) + 1
        /\ pc = "list" => page = Len(page_log) + 1
        /\ pc # "raised" => Len(medicines_data) = SumLinks(page_log)
        /\ (ListingOver /\ Last(page_log).outcome = "json") =>
              Last(page_log).links = 0 \/ ~Last(page_log).next_page
        /\ (ListingOver /\ TwoPageScenario
              /\ \A i \in 1..Len(page_log) : page_log[i].outcome = "json") =>
              Len(medicines_data) = 3 /\ Len(page_log) = 2

\* the two-page scenario has run to its end
C8_Witness ==
    /\ job = "sync" /\ pc = "done"
    /\ TwoPageScenario
    /\ Len(page_log) = 2
    /\ Len(medicines_data) = 3

\* a/b < c/d for fractions of positive denominators
Less(x, y) == x.num * y.den < y.num * x.den

\* C9: one call of the fetch primitive issues at most 5 GET requests, waits
\* only after a 429 answer, waits backoffFactor^k after the attempt of index
\* k, so the waits of a call strictly increase; on answers 429, 429, 429,
\* 200 it succeeds after 4 requests and 3 waits of exponents 0, 1, 2.
C9_RetryBackoff ==
    (job = "fetch" /\ pc # "idle") =>
        LET trace == last_call.trace
            waits == Waits(last_call)
        IN  /\ Len(Requests(last_call)) <= 5
            /\ \A i \in 1..Len(trace) :
                  trace[i].ev = "sleep" =>
                      /\ i > 1
                      /\ trace[i - 1].ev = "GET"
                      /\ trace[i - 1].attempt = trace[i].attempt
                      /\ AnswerAt(last_answers, trace[i].attempt) = 429
                      /\ trace[i].num * Pow(2, trace[i].attempt)
                            = trace[i].den * Pow(3, trace[i].attempt)
            /\ \A i \in 1..Len(waits) : \A j \in 1..Len(waits) :
                  i < j => Less(waits[i], waits[j])
            /\ (Len(last_answers) >= 4
                  /\ SubSeq(last_answers, 1, 4) = <<429, 429, 429, 200>>) =>
                  /\ last_call.outcome = "json"
                  /\ Len(Requests(last_call)) = 4
                  /\ [i \in 1..Len(waits) |-> waits[i].attempt] = <<0, 1, 2>>

\* the detail fetch was answered 429, 429, 429, 200
C9_Witness ==
    /\ job = "fetch" /\ pc = "detail"
    /\ last_answers = <<429, 429, 429, 200>>
    /\ last_call.outcome = "json"
    /\ Len(Waits(last_call)) = 3

\* C10: a detail fetch answered 429 on all 5 attempts ends in an outcome the
\* caller can tell apart from the outcome of a fetch answered a non-200
\* non-429 status.
C10_ExhaustionDistinct ==
    (job = "fetch" /\ pc = "detail" /\ AllLimited(last_answers)) =>
        last_call.outcome # fetch_medicine_detail(<<404>>).outcome

\* C11: the listing fails with an error when the fetch of a page, the first
\* or a later one, is answered 429 on all 5 attempts: that page is the last
\* one asked, the exception leaves the handler, and no shortened list is
\* handed to the store write.
C11_ListingFailsOnExhaustion ==
    job = "sync" =>
        \A i \in 1..Len(page_log) :
            page_log[i].limited =>
                /\ page_log[i].requests = 5
                /\ i = Len(page_log)
                /\ pc = "raised"
                /\ exception = "Max retries exceeded"
                /\ result = NoResult
                /\ put_idx = 1

\* the second page of a catalog was answered 429 on all attempts, after a
\* first page that had links
C11_Witness ==
    /\ job = "sync" /\ pc = "raised"
    /\ Len(page_log) = 2
    /\ page_log[2].limited
    /\ Len(medicines_data) > 0

\* C12: a second full-sync run against the unchanged catalog leaves the
\* store with the entries, and the contents of every entry, it had after the
\* first run.
C12_SecondRunChangesNothing ==
    (job = "sync" /\ runs = 2 /\ pc = "done") =>
        /\ Len(table) = Len(table0)
        /\ table = table0

\* the second run over a catalog of several entries has returned
C12_Witness ==
    /\ job = "sync" /\ runs = 2 /\ pc = "done"
    /\ result.statusCode = 200
    /\ Len(table) >= 3

\* C16: when page k is answered a status that is neither 200 nor 429 the
\* listing stops there: no later page is asked, the entries of pages 1..k-1
\* are what is written to the store, and the job returns status 200.
C16_RefusedPageEndsListing ==
    job = "sync" =>
        \A k \in 1..Len(page_log) :
            page_log[k].outcome = "none" =>
                /\ k = Len(page_log)
                /\ page_log[k].page = k
                /\ medicines_data = CatalogEntries(catalog, k - 1)
                /\ pc \in {"write", "done", "raised"}
                /\ pc = "raised" => exception = "ClientError"
                /\ pc = "done" =>
                      /\ result.statusCode = 200
                      /\ table = write_to_dynamodb(table0,
                                    CatalogEntries(catalog, k - 1))

\* page 2 of a catalog was refused after a first page with links, and the
\* job has returned
C16_Witness ==
    /\ job = "sync" /\ pc = "done"
    /\ Len(page_log) = 2
    /\ page_log[2].outcome = "none"
    /\ Len(catalog) >= 2 /\ Len(catalog[2].significantLink) > 0
    /\ Len(table) > 0

\* C17: no put is issued before the listing loop has ended, so a run whose
\* page fetch runs out of attempts on 429 leaves the store as it found it.
C17_NoWriteBeforeListingEnds ==
    job = "sync" =>
        /\ pc \in {"secrets", "decode", "load_key", "token", "list"} =>
              table = table0 /\ put_idx = 1
        /\ exception = "Max retries exceeded" =>
              table = table0 /\ put_idx = 1

\* the second run found a filled store and failed on its second page
C17_Witness ==
    /\ job = "sync" /\ runs = 2
    /\ exception = "Max retries exceeded"
    /\ Len(page_log) = 2
    /\ Len(medicines_data) > 0
    /\ Len(table0) > 0

\* C19: in a call of the fetch primitive every wait is followed by another
\* GET request, so no wait follows the 5th attempt and a call answered 429
\* on all 5 attempts waits exactly 4 times.
C19_NoWaitAfterLastAttempt ==
    (job = "fetch" /\ pc # "idle") =>
        LET trace == last_call.trace
        IN  /\ \A i \in 1..Len(trace) :
                  trace[i].ev = "sleep" =>
                      /\ i < Len(trace)
                      /\ trace[i + 1].ev = "GET"
            /\ AllLimited(last_answers) => Len(Waits(last_call)) = 4

\* the last non-empty part of a URL
TrailingSegment(url) ==
    LET filled == {i \in 1..Len(url) : url[i] # ""}
    IN  url[CHOOSE i \in filled : \A k \in filled : k <= i]

\* the index of the last listed entry whose URL ends in segment seg
LastListed(data, seg) ==
    CHOOSE i \in 1..Len(data) :
        /\ TrailingSegment(data[i].url) = seg
        /\ \A k \in 1..Len(data) :
              TrailingSegment(data[k].url) = seg => k <= i

C14_AssertionClaims ==
    (job = "jwt" /\ pc = "built") =>
        /\ jwt.token.payload.iss = jwt.api_key
        /\ jwt.token.payload.sub = jwt.api_key
        /\ jwt.token.payload.aud
              = <<"https://int.api.service.nhs.uk/oauth2", "/token">>
        /\ jwt.token.headers.kid = jwt.key_id
        /\ jwt.token.payload.exp * 2 <= jwt.clock + 600
        /\ jwt.token.payload.exp * 2 + 2 > jwt.clock + 600

\* the backfill job has built an assertion at a clock reading past second 0
C14_Witness ==
    /\ job = "jwt" /\ pc = "built"
    /\ jwt.by = "backfill"
    /\ jwt.clock >= 2
    /\ jwt.token.payload.exp = 301
    /\ jwt.api_key = "app-2" /\ jwt.key_id = "kid-2"

BothReturned ==
    /\ job = "backfill" /\ other # NoOther
    /\ pc = "done" /\ other.pc = "done"

\* the log entries of the successful updates of a run's fetch log
Written(log) == {log[i] : i \in {k \in 1..Len(log) : log[k].update = "ok"}}

\* the store's row of the key of a log entry
RowOf(e) ==
    store[CHOOSE i \in 1..Len(store) :
              store[i].URL = e.URL /\ store[i].Name = e.Name]

\* C13, as stated: after two concurrent backfill invocations have returned,
\* whatever their interleaving, the store equals the store left by running
\* the two invocations one after the other.
C13_EqualsSequential ==
    BothReturned => store = Sequential(store0)

\* C13, amended: in every interleaving of two concurrent backfill
\* invocations no entry is added or removed and no Name or URL changes, a
\* field that was set stays as it was, a field the runs set holds the
\* upstream's value, every update either run made, also of an entry both
\* selected, is still in the store with that value, and when at most 25
\* entries lacked the field at the start the final store equals the store
\* left by the two invocations run one after the other.
C13_ConcurrentRuns ==
    (job = "backfill" /\ other # NoOther) =>
        /\ Len(store) = Len(store0)
        /\ \A i \in 1..Len(store) :
              /\ store[i].URL = store0[i].URL
              /\ store[i].Name = store0[i].Name
              /\ store0[i].field.set => store[i].field = store0[i].field
              /\ (store[i].field.set /\ ~store0[i].field.set) =>
                    /\ Fillable(store[i].URL)
                    /\ store[i].field.value = store[i].URL
        /\ \A e \in Written(fetch_log) \cup Written(other.fetch_log) :
              /\ RowOf(e).field.set
              /\ RowOf(e).field.value = e.URL
        /\ (BothReturned /\ Len(FilterNotExists(store0)) <= 25) =>
              store = Sequential(store0)

\* both invocations have returned, an entry was selected and written by
\* both, and at most 25 entries of a store of two pages lacked the field
C13_Witness ==
    /\ BothReturned
    /\ Len(store0) > 25
    /\ Len(FilterNotExists(store0)) <= 25
    /\ Written(fetch_log) \cap Written(other.fetch_log) # {}
    /\ store # store0

\* C15: an item step of a backfill invocation whose entry already has the
\* target field in the store fetches nothing and updates nothing.
C15_RecheckBeforeFetch ==
    [][(/\ job = "backfill" /\ pc = "items"
        /\ item_idx <= Len(accumulated_items)
        /\ item_idx' = item_idx + 1
        /\ other' = other
        /\ FieldInStore(CurrentItem))
          => /\ fetch_log' = fetch_log
             /\ store' = store
             /\ processed_items' = processed_items]_vars

\* C18: a step of a backfill invocation leaves the number of store entries
\* and the Name and URL of every entry as they were, and changes the target
\* field of an entry only by setting it, and only on an entry whose key is
\* in the invocation's batch.
C18_BackfillFrame ==
    [][job = "backfill" =>
          /\ Len(store') = Len(store)
          /\ \A i \in 1..Len(store) :
                /\ store'[i].URL = store[i].URL
                /\ store'[i].Name = store[i].Name
                /\ store'[i].field # store[i].field =>
                      /\ store'[i].field.set
                      /\ \E b \in 1..Len(accumulated_items) :
                            /\ accumulated_items[b].URL = store[i].URL
                            /\ accumulated_items[b].Name = store[i].Name]_vars

\* a run over a store of more than a batch, part of it outside the batch,
\* has set fields and returned
C18_Witness ==
    /\ BackfillReturned
    /\ other = NoOther
    /\ store # store0
    /\ Len(store) > Len(accumulated_items)
    /\ \E i \in 1..Len(store0) : store0[i].field.set
    /\ \E i \in 1..Len(store) : ~store[i].field.set

====
